---- MODULE Spec2Model ----
(***************************************************************************)
(* Model of keyberon's USB HID boot keyboard class (src/keyboard.rs).      *)
(*                                                                         *)
(* HidKeyboard owns a usbd_hid HIDClass (`hid`) and a caller supplied Leds *)
(* sink (`leds`).  The HIDClass and the USB bus are external collaborators:*)
(* every answer they give (bytes written, errors, the pulled raw report)   *)
(* is a nondeterministic input of the action that receives it.  The Leds   *)
(* sink is modelled as a recording implementation of the trait that keeps  *)
(* the last value handed to each setter.                                   *)
(*                                                                         *)
(* Every handler is one atomic action.  The calls it makes on its two      *)
(* collaborators are logged, in program order, in `calls`; the answers the *)
(* HIDClass gave are logged in `env`; the value the handler returned to    *)
(* its caller is `ret`.                                                    *)
(***************************************************************************)
EXTENDS Integers, Sequences, FiniteSets, TLC

VARIABLES
    leds,         \* HidKeyboard.leds: last value given to each Leds setter
    op,           \* the last operation invoked on the HidKeyboard, with its argument
    calls,        \* calls the last operation made on hid and leds, in order
    env,          \* answers of the HIDClass to those calls, in order
    ret,          \* value the last operation returned
    repeated,     \* history: the last operation repeats the one before it (same argument, same answers)
    nOps,         \* history: number of operations performed
    nQualifying,  \* history: number of control_out calls whose pulled report was an LED report
    nLedCalls     \* history: number of Leds setter calls made by the device

vars == <<leds, op, calls, env, ret, repeated, nOps, nQualifying, nLedCalls>>

----------------------------------------------------------------------------
(* Bounds of the exploration *)

MaxOps == 3
MaxDecodeOps == 1
MaxWritten == 9

----------------------------------------------------------------------------
(* Values *)

U8Max == 255
Bytes == 0..U8Max

Unit == [tag |-> "Unit"]
OkUnit == [tag |-> "Ok"]
OkBytes(n) == [tag |-> "Ok", n |-> n]
Err(e) == [tag |-> "Err", err |-> e]
None == [tag |-> "None"]
Some(s) == [tag |-> "Some", val |-> s]

UsbError == {"WouldBlock", "BufferOverflow", "InvalidState"}

LedNames == {"num_lock", "caps_lock", "scroll_lock", "compose", "kana"}

ReportType == {"Input", "Output", "Feature"}

----------------------------------------------------------------------------
(* KeyboardReport *)

NoKeys == <<0, 0, 0, 0, 0, 0>>

KeyboardReport ==
    [modifier : {0, 2}, reserved : {0, 1}, leds : {0, 31},
     keycodes : {NoKeys, <<4, 5, 6, 7, 8, 9>>}]

KEYBOARD_REPORT_IN_SIZE == 1 + 1 + 6

\* Faulty variant: the output-only leds field is serialized with the input fields
InputBytes_withLeds(report) ==
    <<report.modifier, report.reserved, report.leds>> \o report.keycodes

\* The input-direction serialization: the fields declared `= input`, in order.
InputBytes(report) ==
    <<report.modifier, report.reserved>> \o report.keycodes

----------------------------------------------------------------------------
(* Collaborator calls *)

HidCall(name, arg) == [tgt |-> "hid", name |-> name, arg |-> arg]
LedCall(name, status) == [tgt |-> "leds", name |-> name, arg |-> status]

RECURSIVE ApplyLedCalls(_, _)
\* The recording Leds sink: each setter stores its argument.
ApplyLedCalls(l, cs) ==
    IF cs = <<>> THEN l
    ELSE ApplyLedCalls([l EXCEPT ![Head(cs).name] = Head(cs).arg], Tail(cs))

LedCallsIn(cs) == SelectSeq(cs, LAMBDA c : c.tgt = "leds")
HidCallsIn(cs) == SelectSeq(cs, LAMBDA c : c.tgt = "hid")

\* History bookkeeping shared by every operation.
Record(newOp, newCalls, newEnv, newRet, qualifying) ==
    /\ op' = newOp
    /\ calls' = newCalls
    /\ env' = newEnv
    /\ ret' = newRet
    /\ leds' = ApplyLedCalls(leds, LedCallsIn(newCalls))
    /\ repeated' = (newOp.name = op.name /\ newOp.arg = op.arg /\ newEnv = env)
    /\ nOps' = nOps + 1
    /\ nQualifying' = nQualifying + (IF qualifying THEN 1 ELSE 0)
    /\ nLedCalls' = nLedCalls + Len(LedCallsIn(newCalls))

----------------------------------------------------------------------------
(* HidKeyboard::new *)

Init ==
    /\ leds \in {[n \in LedNames |-> FALSE], [n \in LedNames |-> TRUE]}
    /\ op = [name |-> "new", arg |-> Unit]
    /\ calls = <<>>
    /\ env = <<>>
    /\ ret = Unit
    /\ repeated = FALSE
    /\ nOps = 0
    /\ nQualifying = 0
    /\ nLedCalls = 0

----------------------------------------------------------------------------
(* HidKeyboard::push_keyboard_report *)

\* What HIDClass::push_input may answer: a byte count or a UsbError.
PushInputResult == {OkBytes(n) : n \in 0..MaxWritten} \cup {Err(e) : e \in UsbError}

\* Faulty variant: only a short write is rejected
CheckBytesWritten_short(bytes_written) ==
    IF bytes_written < KEYBOARD_REPORT_IN_SIZE THEN Err("BufferOverflow") ELSE OkUnit

\* The closure given to and_then.
CheckBytesWritten(bytes_written) ==
    IF bytes_written # KEYBOARD_REPORT_IN_SIZE THEN Err("BufferOverflow") ELSE OkUnit

\* Result::and_then with that closure: it runs on Ok, an Err passes through.
AndThenCheck(result) ==
    IF result.tag = "Ok" THEN CheckBytesWritten(result.n) ELSE result

PushOp(report) == [name |-> "push_keyboard_report", arg |-> report]
PushInput(report) == HidCall("push_input", InputBytes(report))

\* Faulty variant: a failed submission is retried once and failures are reported as BufferOverflow
push_keyboard_report_retry(report, pushed) ==
    IF pushed.tag = "Err"
    THEN Record(PushOp(report), <<PushInput(report), PushInput(report)>>,
                <<pushed, pushed>>, Err("BufferOverflow"), FALSE)
    ELSE Record(PushOp(report), <<PushInput(report)>>, <<pushed>>,
                AndThenCheck(pushed), FALSE)

\* Faulty variant: the leds field of the pushed report is forwarded to the Leds sink
push_keyboard_report_leds(report, pushed) ==
    Record(PushOp(report),
           <<PushInput(report), LedCall("num_lock", report.leds % 2 = 1)>>,
           <<pushed>>, AndThenCheck(pushed), FALSE)

\* Faulty variant: a report equal to the one pushed just before is not submitted again
push_keyboard_report_dedup(report, pushed) ==
    IF op.name = "push_keyboard_report" /\ op.arg = report /\ ret = OkUnit
    THEN Record(PushOp(report), <<>>, <<>>, OkUnit, FALSE)
    ELSE Record(PushOp(report), <<PushInput(report)>>, <<pushed>>,
                AndThenCheck(pushed), FALSE)

push_keyboard_report(report, pushed) ==
    Record(PushOp(report), <<PushInput(report)>>, <<pushed>>,
           AndThenCheck(pushed), FALSE)

(* HidKeyboard::leds_mut *)

leds_mut ==
    Record([name |-> "leds_mut", arg |-> Unit], <<>>, <<>>, Unit, FALSE)

----------------------------------------------------------------------------
(* impl UsbClass for HidKeyboard: control_out *)

ControlOutXfer == {"set_report", "set_idle"}

ReportInfo == [report_type : ReportType, report_id : {0, 1}, len : {0, 1, 2}]

\* What HIDClass::pull_raw_report may answer for a 1 byte buffer: an error, or
\* the report's metadata together with the byte it left in the buffer.
PullResult(infos, bytes) ==
    {Err(e) : e \in UsbError} \cup
    {[tag |-> "Ok", info |-> i, data |-> b] : i \in infos, b \in bytes}

\* Faulty variant: the bit index is off by one
bit_shifted(ledsByte, i) == (ledsByte \div (2 ^ (i + 1))) % 2 # 0

\* The closure |i| (leds & (1 << i)) != 0 on a u8.
bit(ledsByte, i) == (ledsByte \div (2 ^ i)) % 2 # 0

\* Faulty variant: caps_lock is set before num_lock
LedSetterCalls_reordered(ledsByte) ==
    << LedCall("caps_lock", bit(ledsByte, 1)),
       LedCall("num_lock", bit(ledsByte, 0)),
       LedCall("scroll_lock", bit(ledsByte, 2)),
       LedCall("compose", bit(ledsByte, 3)),
       LedCall("kana", bit(ledsByte, 4)) >>

\* The five setter calls of the inner block, in program order.
LedSetterCalls(ledsByte) ==
    << LedCall("num_lock", bit(ledsByte, 0)),
       LedCall("caps_lock", bit(ledsByte, 1)),
       LedCall("scroll_lock", bit(ledsByte, 2)),
       LedCall("compose", bit(ledsByte, 3)),
       LedCall("kana", bit(ledsByte, 4)) >>

\* Faulty variant: the report id is not checked
IsLedReport_anyId(pulled) ==
    /\ pulled.tag = "Ok"
    /\ pulled.info.report_type = "Output" /\ pulled.info.len = 1

\* if let Ok(info) = ... and the condition on info.
IsLedReport(pulled) ==
    /\ pulled.tag = "Ok"
    /\ pulled.info.report_type = "Output" /\ pulled.info.report_id = 0 /\ pulled.info.len = 1

\* The spec's notion of a qualifying report, stated on the HIDClass's answer.
Qualifying(pulled) ==
    /\ pulled.tag = "Ok"
    /\ pulled.info = [report_type |-> "Output", report_id |-> 0, len |-> 1]

ControlOutOp(xfer) == [name |-> "control_out", arg |-> xfer]

\* Faulty variant: only the setters whose value changed since the last report are called
control_out_edge(xfer, pulled) ==
    LET ledsByte == IF pulled.tag = "Ok" THEN pulled.data ELSE 0
        ledCalls == IF IsLedReport(pulled)
                    THEN SelectSeq(LedSetterCalls(ledsByte), LAMBDA c : leds[c.name] # c.arg)
                    ELSE <<>>
    IN  Record(ControlOutOp(xfer),
               <<HidCall("control_out", xfer), HidCall("pull_raw_report", 1)>> \o ledCalls,
               <<Unit, pulled>>, Unit, Qualifying(pulled))

control_out(xfer, pulled) ==
    LET ledsByte == IF pulled.tag = "Ok" THEN pulled.data ELSE 0
        ledCalls == IF IsLedReport(pulled) THEN LedSetterCalls(ledsByte) ELSE <<>>
    IN  Record(ControlOutOp(xfer),
               <<HidCall("control_out", xfer), HidCall("pull_raw_report", 1)>> \o ledCalls,
               <<Unit, pulled>>, Unit, Qualifying(pulled))

----------------------------------------------------------------------------
(* impl UsbClass for HidKeyboard: the delegated methods *)

DescriptorWriter == {"writer_a", "writer_b"}
BosWriter == {"bos_writer_a", "bos_writer_b"}
StringRequest == [index : {1, 2}, lang_id : {1033}]
ControlInXfer == {"get_report", "get_descriptor"}
EndpointAddress == {1, 129}

UnitResult == {OkUnit} \cup {Err(e) : e \in UsbError}
StringResult == {None, Some("keyboard")}

\* self.hid.<name>(<arg>): one call on the HIDClass, whose answer is returned as is.
Delegate(name, arg, answer) ==
    Record([name |-> name, arg |-> arg], <<HidCall(name, arg)>>, <<answer>>, answer, FALSE)

get_configuration_descriptors(writer, answer) ==
    Delegate("get_configuration_descriptors", writer, answer)

get_bos_descriptors(writer, answer) ==
    Delegate("get_bos_descriptors", writer, answer)

get_string(request, answer) ==
    Delegate("get_string", request, answer)

\* Faulty variant: reset also clears the LEDs
reset_clearsLeds ==
    Record([name |-> "reset", arg |-> Unit],
           <<HidCall("reset", Unit)>> \o LedSetterCalls(0), <<Unit>>, Unit, FALSE)

reset ==
    Delegate("reset", Unit, Unit)

poll ==
    Delegate("poll", Unit, Unit)

control_in(xfer) ==
    Delegate("control_in", xfer, Unit)

endpoint_setup(addr) ==
    Delegate("endpoint_setup", addr, Unit)

endpoint_out(addr) ==
    Delegate("endpoint_out", addr, Unit)

endpoint_in_complete(addr) ==
    Delegate("endpoint_in_complete", addr, Unit)

----------------------------------------------------------------------------
(* The callers: the application pushes reports, the USB stack drives the class *)

SampleBytes == {0, 10, 21, 245}
SamplePullResult == PullResult(ReportInfo, SampleBytes)

PushKeyboardReport ==
    /\ nOps < MaxOps
    /\ \E report \in KeyboardReport, pushed \in PushInputResult :
           push_keyboard_report(report, pushed)

LedsMut ==
    /\ nOps < MaxOps
    /\ leds_mut

ControlOut ==
    /\ nOps < MaxOps
    /\ \E xfer \in ControlOutXfer, pulled \in SamplePullResult :
           control_out(xfer, pulled)

GetConfigurationDescriptors ==
    /\ nOps < MaxOps
    /\ \E writer \in DescriptorWriter, answer \in UnitResult :
           get_configuration_descriptors(writer, answer)

GetBosDescriptors ==
    /\ nOps < MaxOps
    /\ \E writer \in BosWriter, answer \in UnitResult :
           get_bos_descriptors(writer, answer)

GetString ==
    /\ nOps < MaxOps
    /\ \E request \in StringRequest, answer \in StringResult :
           get_string(request, answer)

Reset ==
    /\ nOps < MaxOps
    /\ reset

Poll ==
    /\ nOps < MaxOps
    /\ poll

ControlIn ==
    /\ nOps < MaxOps
    /\ \E xfer \in ControlInXfer : control_in(xfer)

EndpointSetup ==
    /\ nOps < MaxOps
    /\ \E addr \in EndpointAddress : endpoint_setup(addr)

EndpointOut ==
    /\ nOps < MaxOps
    /\ \E addr \in EndpointAddress : endpoint_out(addr)

EndpointInComplete ==
    /\ nOps < MaxOps
    /\ \E addr \in EndpointAddress : endpoint_in_complete(addr)

Next ==
    \/ PushKeyboardReport
    \/ LedsMut
    \/ ControlOut
    \/ GetConfigurationDescriptors
    \/ GetBosDescriptors
    \/ GetString
    \/ Reset
    \/ Poll
    \/ ControlIn
    \/ EndpointSetup
    \/ EndpointOut
    \/ EndpointInComplete

Spec == Init /\ [][Next]_vars

\* The host writing every possible byte: control_out alone, with the LED output
\* report and the three reports that differ from it in one field of the metadata.
NearLedReportInfo ==
    {[report_type |-> "Output", report_id |-> 0, len |-> 1],
     [report_type |-> "Feature", report_id |-> 0, len |-> 1],
     [report_type |-> "Output", report_id |-> 1, len |-> 1],
     [report_type |-> "Output", report_id |-> 0, len |-> 2]}
AnyBytePullResult == PullResult(NearLedReportInfo, Bytes)

ControlOutAnyByte ==
    /\ nOps < MaxDecodeOps
    /\ \E pulled \in AnyBytePullResult : control_out("set_report", pulled)

NextDecode == ControlOutAnyByte

SpecDecode == Init /\ [][NextDecode]_vars

TypeOK ==
    /\ leds \in [LedNames -> BOOLEAN]
    /\ repeated \in BOOLEAN
    /\ nOps \in 0..MaxOps
    /\ nQualifying \in 0..nOps
    /\ nLedCalls \in Nat

----------------------------------------------------------------------------
(* Vocabulary of the properties *)

IsPush(o) == o.name = "push_keyboard_report"
IsControlOut(o) == o.name = "control_out"

PassThrough ==
    {"get_configuration_descriptors", "get_bos_descriptors", "get_string", "reset",
     "poll", "control_in", "endpoint_setup", "endpoint_out", "endpoint_in_complete"}

LedOrder == <<"num_lock", "caps_lock", "scroll_lock", "compose", "kana">>

\* The binary expansion of a byte, least significant bit at index 0.
BitVectors == [0..7 -> {0, 1}]
ValueOf(v) ==
    v[0] + 2 * v[1] + 4 * v[2] + 8 * v[3] + 16 * v[4] + 32 * v[5] + 64 * v[6] + 128 * v[7]
BitsOf == [b \in Bytes |-> CHOOSE v \in BitVectors : ValueOf(v) = b]

SameLedBits(b, c) == \A i \in 0..4 : BitsOf[b][i] = BitsOf[c][i]

CallsTo(cs, setter) == SelectSeq(cs, LAMBDA c : c.tgt = "leds" /\ c.name = setter)
PushInputCalls(cs) == SelectSeq(cs, LAMBDA c : c.tgt = "hid" /\ c.name = "push_input")

\* Each of the five setters is called exactly once, with the value of its bit of b.
EachSetterOnce(cs, b) ==
    /\ Len(LedCallsIn(cs)) = 5
    /\ \A i \in 1..5 :
           CallsTo(cs, LedOrder[i]) = <<LedCall(LedOrder[i], BitsOf[b][i - 1] = 1)>>

SameButLeds(r1, r2) ==
    /\ r1.modifier = r2.modifier
    /\ r1.reserved = r2.reserved
    /\ r1.keycodes = r2.keycodes

----------------------------------------------------------------------------
(* Properties *)

\* C1: push_keyboard_report returns Ok(()) exactly when push_input answered
\* Ok(8); for every Ok(n) with n # 8, fewer or more, it returns
\* Err(BufferOverflow).
C1_OkIffEightBytesWritten ==
    IsPush(op) =>
        /\ Len(env) = 1
        /\ (ret = OkUnit) <=> (env[1] = OkBytes(8))
        /\ (env[1].tag = "Ok" /\ env[1].n # 8) => ret = Err("BufferOverflow")

C1_Witness ==
    /\ IsPush(op)
    /\ env = <<OkBytes(9)>>
    /\ ret = Err("BufferOverflow")

\* C2: when push_input fails with error e, push_keyboard_report returns Err(e),
\* and every call makes exactly one submission to the HID class.
C2_ErrorPropagatedOneSubmission ==
    IsPush(op) =>
        /\ Len(HidCallsIn(calls)) = 1
        /\ Len(PushInputCalls(calls)) = 1
        /\ Len(env) = 1
        /\ env[1].tag = "Err" => ret = env[1]

C2_Witness ==
    /\ IsPush(op)
    /\ env = <<Err("WouldBlock")>>
    /\ ret = Err("WouldBlock")
    /\ Len(calls) = 1

\* C3: for the byte b of a qualifying output report, the five setters receive
\* bits 0..4 of b; a byte that differs from b only in bits 5..7 stands for the
\* same LED calls.
C3_LedBitsDecoded ==
    (IsControlOut(op) /\ Qualifying(env[2])) =>
        /\ EachSetterOnce(calls, env[2].data)
        /\ \A c \in Bytes :
               SameLedBits(c, env[2].data) => EachSetterOnce(calls, c)

C3_Witness ==
    /\ IsControlOut(op)
    /\ Qualifying(env[2])
    /\ env[2].data = 234
    /\ leds = [num_lock |-> FALSE, caps_lock |-> TRUE, scroll_lock |-> FALSE,
               compose |-> TRUE, kana |-> FALSE]

\* C4: control_out calls the Leds methods iff the pull succeeded with type
\* Output, id 0 and length 1; otherwise it makes no Leds call, leaves the Leds
\* untouched and reports nothing.
C4_LedCallsIffQualifying ==
    [][IsControlOut(op') =>
         /\ ret' = Unit
         /\ (LedCallsIn(calls') # <<>>) <=> Qualifying(env'[2])
         /\ ~Qualifying(env'[2]) => (leds' = leds /\ nLedCalls' = nLedCalls)]_vars

C4_Witness ==
    /\ IsControlOut(op)
    /\ env[2].tag = "Ok"
    /\ env[2].info = [report_type |-> "Output", report_id |-> 1, len |-> 1]
    /\ Len(calls) = 2

\* C5: every USB class operation other than control_out calls the same named
\* operation of the HID class exactly once with the same argument, returns its
\* answer unchanged, and neither calls the Leds nor submits an input report.
C5_PassThrough ==
    [][op'.name \in PassThrough =>
         /\ Len(calls') = 1
         /\ calls'[1].tgt = "hid"
         /\ calls'[1].name = op'.name
         /\ calls'[1].arg = op'.arg
         /\ Len(env') = 1
         /\ ret' = env'[1]
         /\ leds' = leds
         /\ nLedCalls' = nLedCalls]_vars

C5_Witness ==
    /\ op.name = "get_configuration_descriptors"
    /\ env = <<Err("InvalidState")>>
    /\ ret = Err("InvalidState")
    /\ nLedCalls = 5

\* C6: push_keyboard_report never calls the Leds and leaves them unchanged,
\* on success and on failure; Leds calls happen inside control_out only.
C6_LedsOnlyInControlOut ==
    [][/\ IsPush(op') => (LedCallsIn(calls') = <<>> /\ leds' = leds /\ nLedCalls' = nLedCalls)
       /\ (LedCallsIn(calls') # <<>> \/ leds' # leds \/ nLedCalls' # nLedCalls)
              => IsControlOut(op')]_vars

C6_Witness ==
    /\ IsPush(op)
    /\ ret = OkUnit
    /\ nLedCalls = 5
    /\ leds = [num_lock |-> TRUE, caps_lock |-> FALSE, scroll_lock |-> TRUE,
               compose |-> FALSE, kana |-> TRUE]

\* C7: a report pushed twice in immediate succession, the endpoint accepting
\* both, is submitted twice with the same bytes and both pushes return Ok(()).
C7_SecondPushLikeFirst ==
    [][(/\ IsPush(op) /\ ret = OkUnit
        /\ IsPush(op') /\ op'.arg = op.arg
        /\ \A i \in 1..Len(env') : env'[i] = OkBytes(8))
         => /\ Len(calls) = 1 /\ Len(calls') = 1
            /\ calls'[1].name = "push_input"
            /\ calls' = calls
            /\ ret' = OkUnit]_vars

C7_Witness ==
    /\ repeated
    /\ IsPush(op)
    /\ env = <<OkBytes(8)>>
    /\ ret = OkUnit
    /\ Len(calls) = 1

\* C8: the bytes submitted for a report are exactly 8: modifier, reserved, then
\* the six keycodes in order; reports that differ only in leds submit the same
\* bytes.
C8_EightInputBytes ==
    [][IsPush(op') =>
         /\ Len(PushInputCalls(calls')) = 1
         /\ LET payload == PushInputCalls(calls')[1].arg IN
              /\ Len(payload) = 8
              /\ payload[1] = op'.arg.modifier
              /\ payload[2] = op'.arg.reserved
              /\ \A k \in 1..6 : payload[2 + k] = op'.arg.keycodes[k]
              /\ (IsPush(op) /\ SameButLeds(op.arg, op'.arg))
                     => payload = PushInputCalls(calls)[1].arg]_vars

C8_Witness ==
    /\ IsPush(op)
    /\ op.arg.leds = 31
    /\ Len(calls) = 1
    /\ calls[1].arg = <<2, 1, 4, 5, 6, 7, 8, 9>>

\* C9: within control_out the transfer is first delegated to the HID class,
\* then one raw report of capacity 1 is pulled, then the setters are called in
\* the order num_lock, caps_lock, scroll_lock, compose, kana.
C9_ControlOutOrder ==
    IsControlOut(op) =>
        /\ Len(calls) \in {2, 7}
        /\ Len(HidCallsIn(calls)) = 2
        /\ calls[1].tgt = "hid" /\ calls[1].name = "control_out" /\ calls[1].arg = op.arg
        /\ calls[2].tgt = "hid" /\ calls[2].name = "pull_raw_report" /\ calls[2].arg = 1
        /\ Len(calls) = 7 =>
               \A i \in 1..5 : calls[2 + i].tgt = "leds" /\ calls[2 + i].name = LedOrder[i]

C9_Witness ==
    /\ IsControlOut(op)
    /\ Len(calls) = 7
    /\ calls[3].name = "num_lock"
    /\ calls[7].name = "kana"

\* C10: every qualifying control_out calls each of the five setters exactly
\* once with the absolute bit value, whatever the Leds held before; after n
\* qualifying control_outs the device has made 5n setter calls.
C10_AbsoluteStateEveryTime ==
    [][/\ nLedCalls' = 5 * nQualifying'
       /\ (IsControlOut(op') /\ Qualifying(env'[2])) =>
              /\ EachSetterOnce(calls', env'[2].data)
              /\ nLedCalls' = nLedCalls + 5]_vars

C10_Witness ==
    /\ repeated
    /\ IsControlOut(op)
    /\ Qualifying(env[2])
    /\ Len(LedCallsIn(calls)) = 5
    /\ nLedCalls = 10

====
